---- MODULE Spec2Model ----
(***************************************************************************)
(* A model of akkorokamui, a client for the Kraken REST API: the response  *)
(* envelope, the credentials file reader, the request signer and the       *)
(* client's send path (src/api/mod.rs, src/auth.rs, src/client.rs,         *)
(* src/api/builder.rs, src/api/body.rs).                                   *)
(*                                                                         *)
(* Strings are sequences of bytes (naturals below 256).  The two hash      *)
(* primitives are kept symbolic: a digest or MAC is a record naming the    *)
(* primitive and its exact inputs, so two outputs are equal exactly when   *)
(* the inputs are.                                                         *)
(***************************************************************************)
EXTENDS Integers, Sequences, FiniteSets, TLC

VARIABLES
    clock,      \* wall clock, milliseconds since the epoch (negative: before it)
    client,     \* the Client: credentials and user agent
    calls,      \* the last two finished Client::send calls, oldest first
    signed,     \* the last two finished Client::api_sign calls, oldest first
    file,       \* the credentials file given to Credentials::read
    readOut,    \* what Credentials::read returned for it
    response,   \* a Response envelope
    success,    \* what Response::is_success returned for it
    assetOut,   \* the last operation on Asset values and what it returned
    built,      \* the last ClientBuilder build and what it returned
    draft,      \* an ApiBuilder, the with calls made on it, and its last text
    tasks       \* the sends in flight on clones of the client, one per task

vars == <<clock, client, calls, signed, file, readOut, response, success, assetOut,
         built, draft, tasks>>

----------------------------------------------------------------------------
(* Bounds of the model. *)

MaxClock == 1       \* the wall clock shows ClockBase .. ClockBase + MaxClock, or -1
ClockBase == 9      \* the first millisecond the wall clock shows after the epoch
MaxFileLen == 5     \* bytes in a credentials file
MaxStatus == 310    \* status codes 0 .. MaxStatus (and the largest u16)
MaxWiths == 3       \* with and with_mut calls on one ApiBuilder

----------------------------------------------------------------------------
(* Byte strings. *)

RECURSIVE Flatten(_)
Flatten(ss) == IF ss = <<>> THEN <<>> ELSE Head(ss) \o Flatten(Tail(ss))

SeqsUpTo(S, n) == UNION {[1..k -> S] : k \in 0..n}

\* Every ordering of the elements of a finite set.
Orderings(S) ==
    {o \in [1..Cardinality(S) -> S] : \A i, j \in DOMAIN o : i # j => o[i] # o[j]}

\* format!("{}", n) of an unsigned integer: its decimal digits.
RECURSIVE Decimal(_)
Decimal(n) == IF n < 10 THEN <<48 + n>> ELSE Decimal(n \div 10) \o <<48 + (n % 10)>>

----------------------------------------------------------------------------
(* Result<T>: Ok(val) or Err(err), in one record shape. *)

Ok(v) == [ok |-> TRUE, err |-> "none", val |-> v]
Err(e, none) == [ok |-> FALSE, err |-> e, val |-> none]

----------------------------------------------------------------------------
(* Response envelope, src/api/mod.rs. *)

Response(error, status_code) == [error |-> error, status_code |-> status_code]

is_success_off_by_one(self) ==
    /\ self.error = <<>>
    /\ self.status_code >= 200
    /\ self.status_code <= 300

is_success(self) ==
    /\ self.error = <<>>
    /\ self.status_code >= 200
    /\ self.status_code < 300

ErrorLists == {<<>>, <<"EGeneral:Invalid arguments">>,
               <<"EAPI:Invalid key", "EAPI:Invalid nonce">>}

StatusCodes == (0..MaxStatus) \cup {65535}

NoResponse == Response(<<>>, 0)
NotAsked == [called |-> FALSE, out |-> FALSE]

----------------------------------------------------------------------------
(* reqwest::header::HeaderValue::from_str: the bytes a header value may    *)
(* hold are the visible ASCII ones, space, tab and the bytes above 127.    *)

is_valid(b) == (b >= 32 /\ b # 127) \/ b = 9

HeaderValue_from_str(s) == \A i \in DOMAIN s : is_valid(s[i])

----------------------------------------------------------------------------
(* str::lines: split at "\n"; a "\r" right before the "\n" belongs to the  *)
(* line ending; the text after the last "\n" is a line unless it is empty. *)

RECURSIVE SplitLF(_, _)
SplitLF(s, cur) ==
    IF s = <<>> THEN IF cur = <<>> THEN <<>> ELSE <<cur>>
    ELSE IF Head(s) = 10
         THEN <<IF cur # <<>> /\ cur[Len(cur)] = 13
                THEN SubSeq(cur, 1, Len(cur) - 1) ELSE cur>>
              \o SplitLF(Tail(s), <<>>)
         ELSE SplitLF(Tail(s), Append(cur, Head(s)))

lines(content) == SplitLF(content, <<>>)

----------------------------------------------------------------------------
(* Credentials, src/auth.rs. *)

Credentials(api_key, private_key) ==
    [present |-> TRUE, api_key |-> api_key, private_key |-> private_key]

\* Option<Credentials>::None, and the value an Err carries in place of one.
NoCredentials == [present |-> FALSE, api_key |-> <<>>, private_key |-> <<>>]

\* Vec::pop on the lines: the last line, if any, and the lines before it.
pop(ls) == [some |-> ls # <<>>,
            line |-> IF ls = <<>> THEN <<>> ELSE ls[Len(ls)],
            rest |-> IF ls = <<>> THEN <<>> ELSE SubSeq(ls, 1, Len(ls) - 1)]

read_swapped(f) ==
    IF ~f.readable THEN Err("InvalidKey", NoCredentials)
    ELSE LET first == pop(lines(f.content))
             second == pop(first.rest)
         IN IF first.some /\ ~HeaderValue_from_str(first.line)
            THEN Err("InvalidKey", NoCredentials)
            ELSE IF second.some /\ ~HeaderValue_from_str(second.line)
            THEN Err("InvalidKey", NoCredentials)
            ELSE IF first.some /\ second.some
            THEN Ok(Credentials(first.line, second.line))
            ELSE Err("InvalidKey", NoCredentials)

\* Credentials::read: the private key is popped first, the API key second.
read(f) ==
    IF ~f.readable THEN Err("InvalidKey", NoCredentials)
    ELSE LET first == pop(lines(f.content))
             second == pop(first.rest)
         IN IF first.some /\ ~HeaderValue_from_str(first.line)
            THEN Err("InvalidKey", NoCredentials)
            ELSE IF second.some /\ ~HeaderValue_from_str(second.line)
            THEN Err("InvalidKey", NoCredentials)
            ELSE IF first.some /\ second.some
            THEN Ok(Credentials(second.line, first.line))
            ELSE Err("InvalidKey", NoCredentials)

\* The bytes of the files read: "a", "b", "\n", "\r" and the control byte 1.
FileBytes == {97, 98, 10, 13, 1}

Files == {[readable |-> FALSE, content |-> <<>>]}
         \cup {[readable |-> TRUE, content |-> c] : c \in SeqsUpTo(FileBytes, MaxFileLen)}

NoFile == [readable |-> FALSE, content |-> <<>>]
NotRead == [called |-> FALSE, out |-> Err("none", NoCredentials)]

----------------------------------------------------------------------------
(* base64::decode with the standard alphabet.  Padding is optional, may    *)
(* only complete the last group of four, and the bits of the last symbol   *)
(* that belong to no byte must be zero.                                    *)

sextet(b) ==
    IF b >= 65 /\ b <= 90 THEN b - 65
    ELSE IF b >= 97 /\ b <= 122 THEN b - 71
    ELSE IF b >= 48 /\ b <= 57 THEN b + 4
    ELSE IF b = 43 THEN 62
    ELSE IF b = 47 THEN 63
    ELSE -1

RECURSIVE DataLen(_)
DataLen(s) == IF s = <<>> \/ Head(s) = 61 THEN 0 ELSE 1 + DataLen(Tail(s))

RECURSIVE DecodeGroups(_)
DecodeGroups(v) ==
    IF Len(v) < 2 THEN <<>>
    ELSE LET b1 == v[1] * 4 + (v[2] \div 16)
         IN IF Len(v) = 2 THEN <<b1>>
            ELSE LET b2 == (v[2] % 16) * 16 + (v[3] \div 4)
                 IN IF Len(v) = 3 THEN <<b1, b2>>
                    ELSE <<b1, b2, (v[3] % 4) * 64 + v[4]>>
                         \o DecodeGroups(SubSeq(v, 5, Len(v)))

base64_decode(s) ==
    LET n == DataLen(s)
        v == [i \in 1..n |-> sextet(s[i])]
        pad == Len(s) - n
        valid ==
            /\ \A i \in 1..n : v[i] >= 0
            /\ \A i \in (n + 1)..Len(s) : s[i] = 61
            /\ n % 4 # 1
            /\ pad > 0 => (n % 4 \in {2, 3} /\ pad <= 4 - (n % 4))
            /\ n % 4 = 2 => v[n] % 16 = 0
            /\ n % 4 = 3 => v[n] % 4 = 0
    IN IF valid THEN Ok(DecodeGroups(v)) ELSE Err("InvalidKey", <<>>)

private_key_lenient(credentials) ==
    LET decoded == base64_decode(credentials.private_key)
    IN Ok(IF decoded.ok THEN decoded.val ELSE <<>>)

\* Credentials::private_key: the private key decoded from Base64.
private_key(credentials) == base64_decode(credentials.private_key)

api_key_secret(credentials) == credentials.private_key

\* Credentials::api_key.
api_key(credentials) == credentials.api_key

----------------------------------------------------------------------------
(* The hash primitives and the byte vectors they are fed.  A byte vector   *)
(* is a sequence of chunks: runs of plain bytes and whole digests.         *)

Bytes(s) == IF s = <<>> THEN <<>> ELSE <<[t |-> "bytes", v |-> s]>>

\* Vec::append: the bytes of b after the bytes of a.
ByteCat(a, b) ==
    IF a # <<>> /\ b # <<>> /\ a[Len(a)].t = "bytes" /\ b[1].t = "bytes"
    THEN SubSeq(a, 1, Len(a) - 1) \o <<[t |-> "bytes", v |-> a[Len(a)].v \o b[1].v]>>
         \o Tail(b)
    ELSE a \o b

\* Sha256::digest(input).to_vec(): the 32 bytes of the digest of input.
Sha256(input) == <<[t |-> "sha256", v |-> input]>>

\* Hmac<Sha512> keyed with key, fed msg, finalized: the 64 bytes of the MAC.
HmacSha512(key, msg) == [t |-> "hmac-sha512", key |-> key, msg |-> msg]

\* Hmac::new_varkey: HMAC takes a key of any length.
new_varkey(key) == Ok(key)

\* base64::encode of a MAC.
base64_encode(mac) == [t |-> "base64", of |-> mac]

\* The value an Err carries in place of a signature.
NoSignature == base64_encode(HmacSha512(<<>>, <<>>))

----------------------------------------------------------------------------
(* Client, src/client.rs. *)

Client(credentials, user_agent) ==
    [credentials |-> credentials, user_agent |-> user_agent]

\* Client::nonce: the wall clock in milliseconds since the epoch; the clock
\* may show a time before the epoch, and duration_since then fails.
nonce(now) == IF now < 0 THEN Err("Internal", 0) ELSE Ok(now)

api_sign_digest_first(self, uri_path, n, body) ==
    IF self.credentials.present
    THEN LET sha_body == Decimal(n) \o body
             sha == Sha256(sha_body)
             key == private_key(self.credentials)
         IN IF ~key.ok THEN Err(key.err, NoSignature)
            ELSE LET mac == new_varkey(key.val)
                 IN IF ~mac.ok THEN Err("InvalidKey", NoSignature)
                    ELSE LET hmac_data == ByteCat(sha, Bytes(uri_path))
                         IN Ok(base64_encode(HmacSha512(mac.val, hmac_data)))
    ELSE Err("Unauthorized", NoSignature)

api_sign_keyed_by_api_key(self, uri_path, n, body) ==
    IF self.credentials.present
    THEN LET sha_body == Decimal(n) \o body
             sha == Sha256(sha_body)
             key == private_key(self.credentials)
         IN IF ~key.ok THEN Err(key.err, NoSignature)
            ELSE LET mac == new_varkey(key.val \o api_key(self.credentials))
                 IN IF ~mac.ok THEN Err("InvalidKey", NoSignature)
                    ELSE LET hmac_data == ByteCat(Bytes(uri_path), sha)
                         IN Ok(base64_encode(HmacSha512(mac.val, hmac_data)))
    ELSE Err("Unauthorized", NoSignature)

api_sign_anonymous(self, uri_path, n, body) ==
    LET sha_body == Decimal(n) \o body
        sha == Sha256(sha_body)
        key == private_key(self.credentials)
    IN IF ~key.ok THEN Err(key.err, NoSignature)
       ELSE LET hmac_data == ByteCat(Bytes(uri_path), sha)
            IN Ok(base64_encode(HmacSha512(key.val, hmac_data)))

\* Client::api_sign: the API-Sign header value.
api_sign(self, uri_path, n, body) ==
    IF self.credentials.present
    THEN LET sha_body == Decimal(n) \o body
             sha == Sha256(sha_body)
             key == private_key(self.credentials)
         IN IF ~key.ok THEN Err(key.err, NoSignature)
            ELSE LET mac == new_varkey(key.val)
                 IN IF ~mac.ok THEN Err("InvalidKey", NoSignature)
                    ELSE LET hmac_data == ByteCat(Bytes(uri_path), sha)
                         IN Ok(base64_encode(HmacSha512(mac.val, hmac_data)))
    ELSE Err("Unauthorized", NoSignature)

\* The last two records of a history, oldest first.
Remember(log, rec) == IF Len(log) < 2 THEN Append(log, rec) ELSE <<log[2], rec>>

ClockValues == {-1} \cup {ClockBase + i : i \in 0..MaxClock}

----------------------------------------------------------------------------
(* ApiBuilder and Api, src/api/builder.rs and src/api/mod.rs.  A HashMap   *)
(* is a function from its keys; the order in which it is iterated is not   *)
(* fixed, so formatting takes the order as an argument.                    *)

\* "https://api.kraken.com"
KRAKEN_DOMAIN ==
    <<104, 116, 116, 112, 115, 58, 47, 47, 97, 112, 105, 46, 107, 114, 97, 107, 101,
      110, 46, 99, 111, 109>>

\* Display for ApiKind: "public" and "private".
ApiKind_to_string(kind) ==
    IF kind = "Public" THEN <<112, 117, 98, 108, 105, 99>>
    ELSE <<112, 114, 105, 118, 97, 116, 101>>

EmptyMap == [k \in {} |-> <<>>]

\* HashMap::insert.
insert(map, key, value) ==
    [k \in DOMAIN map \cup {key} |-> IF k = key THEN value ELSE map[k]]

with_method(kind, method) ==
    [kind |-> kind,
     domain |-> KRAKEN_DOMAIN,
     version |-> <<48>>,
     path |-> ApiKind_to_string(kind),
     method |-> method,
     params |-> EmptyMap,
     headers |-> EmptyMap]

with_mut_keeping_first(self, key, value) ==
    IF key \in DOMAIN self.params THEN self
    ELSE [self EXCEPT !.params = insert(self.params, key, value)]

\* ApiBuilder::with and ApiBuilder::with_mut: the parameter is inserted into
\* the map, by value in the one and in place in the other.
with(self, key, value) == [self EXCEPT !.params = insert(self.params, key, value)]

with_mut(self, key, value) == [self EXCEPT !.params = insert(self.params, key, value)]

public(method) == with_method("Public", method)
private(method) == with_method("Private", method)

is_public(api) == api.kind = "Public"
is_private(api) == api.kind = "Private"

\* "/{version}/{path}/{method}"
uri_path(self) == <<47>> \o self.version \o <<47>> \o self.path \o <<47>> \o self.method

\* "{key}={value}&" for each parameter, the last "&" popped.
params(self, order) ==
    LET joined == Flatten([i \in DOMAIN order |->
                      order[i] \o <<61>> \o self.params[order[i]] \o <<38>>])
    IN IF joined = <<>> THEN <<>> ELSE SubSeq(joined, 1, Len(joined) - 1)

url_always_query(self, order) ==
    self.domain \o uri_path(self)
    \o IF DOMAIN self.params # {} THEN <<63>> \o params(self, order) ELSE <<>>

url(self, order) ==
    self.domain \o uri_path(self)
    \o IF self.kind = "Public" /\ DOMAIN self.params # {}
       THEN <<63>> \o params(self, order) ELSE <<>>

----------------------------------------------------------------------------
(* Body of a POST request, src/api/body.rs. *)

with_params(n, ps) == [nonce |-> n, otp |-> <<>>, has_otp |-> FALSE, params |-> ps]

\* Display for Body: every parameter as "{key}={value}&", then "nonce={nonce}",
\* then "&otp={otp}" when there is one.
Body_to_string(self, order) ==
    Flatten([i \in DOMAIN order |->
        order[i] \o <<61>> \o self.params[order[i]] \o <<38>>])
    \o <<110, 111, 110, 99, 101, 61>> \o Decimal(self.nonce)
    \o IF self.has_otp THEN <<38, 111, 116, 112, 61>> \o self.otp ELSE <<>>

\* "0123456789ABCDEF"
HexDigits == <<48, 49, 50, 51, 52, 53, 54, 55, 56, 57, 65, 66, 67, 68, 69, 70>>

\* utf8_percent_encode(_, CONTROLS): the C0 controls, DEL and the bytes
\* above 127 become "%XX"; every other byte is kept.
utf8_percent_encode(s) ==
    Flatten([i \in DOMAIN s |->
        IF s[i] < 32 \/ s[i] >= 127
        THEN <<37, HexDigits[(s[i] \div 16) + 1], HexDigits[(s[i] % 16) + 1]>>
        ELSE <<s[i]>>])

urlencode(self, order) == utf8_percent_encode(Body_to_string(self, order))

----------------------------------------------------------------------------
(* An ApiBuilder in the making: the with and with_mut calls made on it so  *)
(* far, and the text last taken from it, a URL or a request body.          *)

\* Parameter keys "a" and "b"; values "1", "2" and "1&b=%32".
ParamKeys == {<<97>>, <<98>>}
ParamValues == {<<49>>, <<50>>, <<49, 38, 98, 61, 37, 51, 50>>}

NoText == [op |-> "none", text |-> <<>>, nonce |-> 0]

Draft(api, log, last, shown) ==
    [api |-> api, log |-> log, last |-> last, shown |-> shown]

NoDraft == Draft(public(<<>>), <<>>, "none", NoText)

----------------------------------------------------------------------------
(* The exchange and the network between: what one HTTP request may meet.   *)

Request(method, target, headers, body) ==
    [method |-> method, url |-> target, headers |-> headers, body |-> body]

\* No response at all, a response whose body is not the JSON envelope, or
\* a response with the envelope.
Replies ==
    {[arrived |-> FALSE, json |-> FALSE, status |-> 0, error |-> <<>>],
     [arrived |-> TRUE, json |-> FALSE, status |-> 502, error |-> <<>>],
     [arrived |-> TRUE, json |-> TRUE, status |-> 200, error |-> <<>>],
     [arrived |-> TRUE, json |-> TRUE, status |-> 200,
      error |-> <<"EAPI:Invalid key">>]}

\* RequestBuilder::send and Response::json: a failed send or a body that
\* does not deserialize is Error::Request; the envelope's status_code is
\* skipped by the deserializer and left at its default.
send_json(reply) ==
    IF reply.arrived /\ reply.json THEN Ok(Response(reply.error, 0))
    ELSE Err("Request", NoResponse)

----------------------------------------------------------------------------
(* Client::send, Client::get and Client::post, src/client.rs.  Each yields *)
(* the requests it issued, the nonce it drew and its result.               *)

NoNonce == [some |-> FALSE, n |-> 0]

Outcome(requests, n, result) == [requests |-> requests, nonce |-> n, result |-> result]

get(self, api, order, reply) ==
    Outcome(<<Request("GET", url(api, order), api.headers, <<>>)>>, NoNonce,
            send_json(reply))

post_signing_next_nonce(self, api, now, order, reply) ==
    LET drawn == nonce(now)
    IN IF ~drawn.ok THEN Outcome(<<>>, NoNonce, Err(drawn.err, NoResponse))
       ELSE
       LET n == drawn.val
           target == url(api, order)
           path == uri_path(api)
           body == urlencode(with_params(n, api.params), order)
           sign == api_sign(self, path, n + 1, body)
           used == [some |-> TRUE, n |-> n]
       IN IF self.credentials.present /\ ~sign.ok
          THEN Outcome(<<>>, used, Err(sign.err, NoResponse))
          ELSE
          LET headers ==
                  IF self.credentials.present
                  THEN insert(insert(api.headers, "API-Key", api_key(self.credentials)),
                              "API-Sign", sign.val)
                  ELSE api.headers
          IN Outcome(<<Request("POST", target, headers, body)>>, used,
                     send_json(reply))

post(self, api, now, order, reply) ==
    LET drawn == nonce(now)
    IN IF ~drawn.ok THEN Outcome(<<>>, NoNonce, Err(drawn.err, NoResponse))
       ELSE
       LET n == drawn.val
           target == url(api, order)
           path == uri_path(api)
           body == urlencode(with_params(n, api.params), order)
           sign == api_sign(self, path, n, body)
           used == [some |-> TRUE, n |-> n]
       IN IF self.credentials.present /\ ~sign.ok
          THEN Outcome(<<>>, used, Err(sign.err, NoResponse))
          ELSE
          LET headers ==
                  IF self.credentials.present
                  THEN insert(insert(api.headers, "API-Key", api_key(self.credentials)),
                              "API-Sign", sign.val)
                  ELSE api.headers
          IN Outcome(<<Request("POST", target, headers, body)>>, used,
                     send_json(reply))

send(self, api, now, order, reply) ==
    LET tagged == [api EXCEPT !.headers = insert(@, "user-agent", self.user_agent)]
    IN IF is_public(tagged) THEN get(self, tagged, order, reply)
       ELSE post(self, tagged, now, order, reply)

----------------------------------------------------------------------------
(* Sends in flight.  A send runs without interruption up to the request it *)
(* issues and is suspended until the response arrives.                     *)

TaskIds == {1, 2}

IdleTask ==
    [pc |-> "idle", turn |-> 0, requests |-> <<>>, nonce |-> NoNonce,
     result |-> Err("none", NoResponse)]

NoTasks == [t \in TaskIds |-> IdleTask]

----------------------------------------------------------------------------
(* The clients of src/client/async.rs and src/client/blocking.rs, which    *)
(* differ in nothing but the awaits.  A response that arrived is kept as   *)
(* the reply it came from.                                                 *)

NoReply == [arrived |-> FALSE, json |-> FALSE, status |-> 0, error |-> <<>>]

\* The arguments of a signed request: the nonce is drawn from the wall clock,
\* the body is the URL-encoded parameters and nonce, and the headers are
\* those of the API with the API key and the signature of api_sign, which
\* fails without credentials or with a private key it cannot use.
make_req_args(self, api, now, order) ==
    LET drawn == nonce(now)
        none == [headers |-> EmptyMap, body |-> <<>>, nonce |-> NoNonce]
    IN IF ~drawn.ok THEN Err(drawn.err, none)
       ELSE
       LET n == drawn.val
           body == urlencode(with_params(n, api.params), order)
           sign == api_sign(self, uri_path(api), n, body)
           used == [some |-> TRUE, n |-> n]
       IN IF ~sign.ok THEN Err(sign.err, [none EXCEPT !.nonce = used])
          ELSE Ok([headers |-> insert(insert(api.headers, "API-Key",
                                             api_key(self.credentials)),
                                      "API-Sign", sign.val),
                   body |-> body, nonce |-> used])

\* The replies to the asynchronous and blocking clients: those above, and
\* the envelope without errors under a status that is not 2xx.
HttpReplies ==
    Replies \cup {[arrived |-> TRUE, json |-> TRUE, status |-> 520, error |-> <<>>]}

\* RequestBuilder::send: the response, or Error::Request when none arrives.
http_send(reply) == IF reply.arrived THEN Ok(reply) ELSE Err("Request", NoReply)

HttpClient_get_retrying(self, api, order, reply) ==
    LET req == Request("GET", url(api, order), api.headers, <<>>)
    IN Outcome(IF reply.arrived THEN <<req>> ELSE <<req, req>>, NoNonce,
               http_send(reply))

\* Client::get: one GET of the URL with the headers of the API.
HttpClient_get(self, api, order, reply) ==
    Outcome(<<Request("GET", url(api, order), api.headers, <<>>)>>, NoNonce,
            http_send(reply))

\* The end of Client::post: the error of make_req_args and no request, or
\* one POST of the URL with its headers and body.
post_args(target, args, reply) ==
    IF ~args.ok THEN Outcome(<<>>, args.val.nonce, Err(args.err, NoReply))
    ELSE Outcome(<<Request("POST", target, args.val.headers, args.val.body)>>,
                 args.val.nonce, http_send(reply))

\* Client::post: the URL, the arguments of make_req_args, and the POST.
HttpClient_post(self, api, now, order, reply) ==
    post_args(url(api, order), make_req_args(self, api, now, order), reply)

Response_json_default_status(sent) ==
    IF ~sent.result.ok
    THEN Outcome(sent.requests, sent.nonce, Err(sent.result.err, NoResponse))
    ELSE IF ~sent.result.val.json
         THEN Outcome(sent.requests, sent.nonce, Err("Request", NoResponse))
         ELSE Outcome(sent.requests, sent.nonce,
                      Ok(Response(sent.result.val.error, 0)))

\* The end of Client::send: the error of get or post goes to the caller, and
\* the envelope decoded from the response takes the status of the response.
Response_json(sent) ==
    IF ~sent.result.ok
    THEN Outcome(sent.requests, sent.nonce, Err(sent.result.err, NoResponse))
    ELSE IF ~sent.result.val.json
         THEN Outcome(sent.requests, sent.nonce, Err("Request", NoResponse))
         ELSE Outcome(sent.requests, sent.nonce,
                      Ok(Response(sent.result.val.error, sent.result.val.status)))

\* Client::send: the user agent is added to the headers and the API goes out
\* by its kind.
HttpClient_send(self, api, now, order, reply) ==
    LET tagged == [api EXCEPT !.headers = insert(@, "user-agent", self.user_agent)]
    IN Response_json(IF is_public(tagged)
                     THEN HttpClient_get(self, tagged, order, reply)
                     ELSE HttpClient_post(self, tagged, now, order, reply))

----------------------------------------------------------------------------
(* Asset, src/assets.rs. *)

\* The variants of Asset but Unknown, in the order of the enum.
KnownAssets ==
    {"ADA", "ALGO", "ATOM", "BAL", "BAT", "BCH", "COMP", "CRV", "DAI",
     "DASH", "DOT", "EOS", "FIL", "FLOW", "GNO", "ICX", "KAVA", "KNC",
     "KSM", "LINK", "LSK", "OMG", "OXT", "PAXG", "QTUM", "SC", "SNX",
     "STORJ", "TRX", "UNI", "USDC", "USDT", "WAVE", "XETC", "XETH", "XLTC",
     "XMLN", "XREP", "REPV2", "XXBT", "XXDG", "XXLM", "XXMR", "XXRP", "XTZ",
     "XZEC", "YFI", "ZEC", "NANO", "WAVES", "CHF", "ZAUD", "ZCAD", "ZEUR",
     "ZGBP", "ZJPY", "ZUSD", "KFEE"}

Assets == KnownAssets \cup {"Unknown"}

\* derive(Debug): the name of each variant, as bytes.
DebugName ==
    "ADA" :> <<65, 68, 65>> @@
    "ALGO" :> <<65, 76, 71, 79>> @@
    "ATOM" :> <<65, 84, 79, 77>> @@
    "BAL" :> <<66, 65, 76>> @@
    "BAT" :> <<66, 65, 84>> @@
    "BCH" :> <<66, 67, 72>> @@
    "COMP" :> <<67, 79, 77, 80>> @@
    "CRV" :> <<67, 82, 86>> @@
    "DAI" :> <<68, 65, 73>> @@
    "DASH" :> <<68, 65, 83, 72>> @@
    "DOT" :> <<68, 79, 84>> @@
    "EOS" :> <<69, 79, 83>> @@
    "FIL" :> <<70, 73, 76>> @@
    "FLOW" :> <<70, 76, 79, 87>> @@
    "GNO" :> <<71, 78, 79>> @@
    "ICX" :> <<73, 67, 88>> @@
    "KAVA" :> <<75, 65, 86, 65>> @@
    "KNC" :> <<75, 78, 67>> @@
    "KSM" :> <<75, 83, 77>> @@
    "LINK" :> <<76, 73, 78, 75>> @@
    "LSK" :> <<76, 83, 75>> @@
    "OMG" :> <<79, 77, 71>> @@
    "OXT" :> <<79, 88, 84>> @@
    "PAXG" :> <<80, 65, 88, 71>> @@
    "QTUM" :> <<81, 84, 85, 77>> @@
    "SC" :> <<83, 67>> @@
    "SNX" :> <<83, 78, 88>> @@
    "STORJ" :> <<83, 84, 79, 82, 74>> @@
    "TRX" :> <<84, 82, 88>> @@
    "UNI" :> <<85, 78, 73>> @@
    "USDC" :> <<85, 83, 68, 67>> @@
    "USDT" :> <<85, 83, 68, 84>> @@
    "WAVE" :> <<87, 65, 86, 69>> @@
    "XETC" :> <<88, 69, 84, 67>> @@
    "XETH" :> <<88, 69, 84, 72>> @@
    "XLTC" :> <<88, 76, 84, 67>> @@
    "XMLN" :> <<88, 77, 76, 78>> @@
    "XREP" :> <<88, 82, 69, 80>> @@
    "REPV2" :> <<82, 69, 80, 86, 50>> @@
    "XXBT" :> <<88, 88, 66, 84>> @@
    "XXDG" :> <<88, 88, 68, 71>> @@
    "XXLM" :> <<88, 88, 76, 77>> @@
    "XXMR" :> <<88, 88, 77, 82>> @@
    "XXRP" :> <<88, 88, 82, 80>> @@
    "XTZ" :> <<88, 84, 90>> @@
    "XZEC" :> <<88, 90, 69, 67>> @@
    "YFI" :> <<89, 70, 73>> @@
    "ZEC" :> <<90, 69, 67>> @@
    "NANO" :> <<78, 65, 78, 79>> @@
    "WAVES" :> <<87, 65, 86, 69, 83>> @@
    "CHF" :> <<67, 72, 70>> @@
    "ZAUD" :> <<90, 65, 85, 68>> @@
    "ZCAD" :> <<90, 67, 65, 68>> @@
    "ZEUR" :> <<90, 69, 85, 82>> @@
    "ZGBP" :> <<90, 71, 66, 80>> @@
    "ZJPY" :> <<90, 74, 80, 89>> @@
    "ZUSD" :> <<90, 85, 83, 68>> @@
    "KFEE" :> <<75, 70, 69, 69>>

\* Display for Asset: "<unknown asset>" for Unknown, the variant's name for
\* every other asset.
Asset_to_string(self) ==
    IF self = "Unknown"
    THEN <<60, 117, 110, 107, 110, 111, 119, 110, 32, 97, 115, 115, 101, 116, 62>>
    ELSE DebugName[self]

\* Asset::pair: format!("{}{}", self, other).
pair(self, other) == Asset_to_string(self) \o Asset_to_string(other)

is_fiat(self) == self \in {"ZAUD", "ZCAD", "ZEUR", "ZGBP", "ZJPY", "ZUSD", "CHF"}

is_kraken_credit(self) == self = "KFEE"

is_unknown(self) == self = "Unknown"

is_crypto_or_credit(self) == ~(is_fiat(self) \/ is_unknown(self))

is_crypto(self) == ~(is_fiat(self) \/ is_kraken_credit(self) \/ is_unknown(self))

\* str::to_ascii_uppercase.
to_ascii_uppercase(s) ==
    [i \in DOMAIN s |-> IF s[i] >= 97 /\ s[i] <= 122 THEN s[i] - 32 ELSE s[i]]

deserialize_any_case(name) ==
    IF \E a \in KnownAssets : DebugName[a] = to_ascii_uppercase(name)
    THEN CHOOSE a \in KnownAssets : DebugName[a] = to_ascii_uppercase(name)
    ELSE "Unknown"

\* derive(Deserialize) with #[serde(other)] on Unknown: the variant whose
\* name is the string, and Unknown for every other string.
deserialize(name) ==
    IF \E a \in KnownAssets : DebugName[a] = name
    THEN CHOOSE a \in KnownAssets : DebugName[a] = name
    ELSE "Unknown"

from_str_case_sensitive(asset) ==
    IF \E a \in KnownAssets : DebugName[a] = asset
    THEN Ok(CHOOSE a \in KnownAssets : DebugName[a] = asset)
    ELSE Err("UnknownAsset", "Unknown")

\* FromStr for Asset: the string in upper case is matched against the code
\* of every variant but Unknown; any other string is Error::unknown_asset.
from_str(asset) ==
    LET upper == to_ascii_uppercase(asset)
    IN IF \E a \in KnownAssets : DebugName[a] = upper
       THEN Ok(CHOOSE a \in KnownAssets : DebugName[a] = upper)
       ELSE Err("UnknownAsset", "Unknown")

\* The names deserialized: every variant's name, and "ABCD", "xxbt", "XBT",
\* "", "Unknown", "<unknown asset>" and "XXBT ".
AssetNames ==
    {DebugName[a] : a \in KnownAssets}
    \cup {<<65, 66, 67, 68>>,
          <<120, 120, 98, 116>>,
          <<88, 66, 84>>,
          <<>>,
          <<85, 110, 107, 110, 111, 119, 110>>,
          <<60, 117, 110, 107, 110, 111, 119, 110, 32, 97, 115, 115, 101, 116, 62>>,
          <<88, 88, 66, 84, 32>>}

Classes(self) ==
    [is_crypto |-> is_crypto(self), is_fiat |-> is_fiat(self),
     is_kraken_credit |-> is_kraken_credit(self), is_unknown |-> is_unknown(self)]

AssetOp(op, self, other, name, text, variant) ==
    [op |-> op, self |-> self, other |-> other, name |-> name, text |-> text,
     variant |-> variant, classes |-> Classes(variant), err |-> "none"]

NoAssetOp == AssetOp("none", "Unknown", "Unknown", <<>>, <<>>, "Unknown")

----------------------------------------------------------------------------
(* The inputs of the model. *)

\* api::public::time(), api::public::ticker().with("pair", "XBTEUR"),
\* api::private::balance(),
\* api::private::add_order().with("pair", "XBTEUR").with("type", "buy") and
\* api::private::balance().with("nonce", "1").
Apis ==
    {public(<<84, 105, 109, 101>>),
     with(public(<<84, 105, 99, 107, 101, 114>>),
          <<112, 97, 105, 114>>, <<88, 66, 84, 69, 85, 82>>),
     private(<<66, 97, 108, 97, 110, 99, 101>>),
     with(with(private(<<65, 100, 100, 79, 114, 100, 101, 114>>),
               <<112, 97, 105, 114>>, <<88, 66, 84, 69, 85, 82>>),
          <<116, 121, 112, 101>>, <<98, 117, 121>>),
     with(private(<<66, 97, 108, 97, 110, 99, 101>>),
          <<110, 111, 110, 99, 101>>, <<49>>)}

\* "akkorokamui/0.4.0" and "<product>/<product-version>".
UserAgent1 == <<97, 107, 107, 111, 114, 111, 107, 97, 109, 117, 105, 47, 48, 46, 52, 46, 48>>
UserAgent2 ==
    <<60, 112, 114, 111, 100, 117, 99, 116, 62, 47, 60, 112, 114, 111, 100, 117, 99,
      116, 45, 118, 101, 114, 115, 105, 111, 110, 62>>

\* "<api_key>" and "k2".
ApiKey1 == <<60, 97, 112, 105, 95, 107, 101, 121, 62>>
ApiKey2 == <<107, 50>>

\* Valid Base64: "QUI=" (the bytes 65, 66), "c2VjcmV0" ("secret") and "".
ValidPrivateKeys == {<<81, 85, 73, 61>>, <<99, 50, 86, 106, 99, 109, 86, 48>>, <<>>}

\* Not Base64: "<private_key>" (bytes outside the alphabet), "QUJDR" (a
\* dangling symbol) and "QR==" (bits left over in the last symbol).
InvalidPrivateKeys ==
    {<<60, 112, 114, 105, 118, 97, 116, 101, 95, 107, 101, 121, 62>>,
     <<81, 85, 74, 68, 82>>, <<81, 82, 61, 61>>}

\* The clients that send: without credentials, with a key pair, with another
\* key pair, and with private keys that are not Base64.
SendingClients ==
    {Client(NoCredentials, UserAgent1),
     Client(Credentials(ApiKey1, <<81, 85, 73, 61>>), UserAgent1),
     Client(Credentials(ApiKey2, <<99, 50, 86, 106, 99, 109, 86, 48>>), UserAgent1),
     Client(Credentials(ApiKey1,
         <<60, 112, 114, 105, 118, 97, 116, 101, 95, 107, 101, 121, 62>>), UserAgent1),
     Client(Credentials(ApiKey1, <<81, 82, 61, 61>>), UserAgent1)}

\* The clients that sign: as above, and clients that differ from them in the
\* user agent or the API key alone.
SigningClients ==
    {Client(NoCredentials, UserAgent1),
     Client(NoCredentials, UserAgent2),
     Client(Credentials(ApiKey1, <<81, 85, 73, 61>>), UserAgent1),
     Client(Credentials(ApiKey1, <<81, 85, 73, 61>>), UserAgent2),
     Client(Credentials(ApiKey2, <<81, 85, 73, 61>>), UserAgent1),
     Client(Credentials(ApiKey1, <<>>), UserAgent1),
     Client(Credentials(ApiKey1,
         <<60, 112, 114, 105, 118, 97, 116, 101, 95, 107, 101, 121, 62>>), UserAgent1),
     Client(Credentials(ApiKey1, <<81, 85, 74, 68, 82>>), UserAgent1),
     Client(Credentials(ApiKey2, <<81, 82, 61, 61>>), UserAgent2)}

\* The URI paths, nonces and bodies signed directly: "/0/private/Balance" and
\* "/0/private/AddOrder"; "nonce=9" and "pair=XBTEUR&nonce=10".
SignedPaths ==
    {<<47, 48, 47, 112, 114, 105, 118, 97, 116, 101, 47, 66, 97, 108, 97, 110, 99,
       101>>,
     <<47, 48, 47, 112, 114, 105, 118, 97, 116, 101, 47, 65, 100, 100, 79, 114, 100,
       101, 114>>}

SignedBodies ==
    {<<110, 111, 110, 99, 101, 61, 57>>,
     <<112, 97, 105, 114, 61, 88, 66, 84, 69, 85, 82, 38, 110, 111, 110, 99, 101, 61,
       49, 48>>}

SignedNonces == {ClockBase + i : i \in 0..MaxClock}

NoClient == Client(NoCredentials, <<>>)

----------------------------------------------------------------------------
(* ClientBuilder, src/client/builder.rs and src/client.rs. *)

ClientBuilder(user_agent, credentials) ==
    [user_agent |-> user_agent, credentials |-> credentials]

\* ClientBuilder::with_user_agent: the user agent as a String, no credentials.
with_user_agent(user_agent) == ClientBuilder(user_agent, NoCredentials)

\* ClientBuilder::with_credentials.
with_credentials(self, credentials) == ClientBuilder(self.user_agent, credentials)

\* TryInto<HeaderValue> for String, mapped into the crate's error.
user_agent_try_into(user_agent) ==
    IF HeaderValue_from_str(user_agent)
    THEN Ok(user_agent)
    ELSE Err("InvalidUserAgent", <<>>)

build_blocking_anonymous(self) ==
    LET user_agent == user_agent_try_into(self.user_agent)
    IN IF ~user_agent.ok THEN Err(user_agent.err, NoClient)
       ELSE Ok(Client(NoCredentials, user_agent.val))

\* ClientBuilder::build_blocking.
build_blocking(self) ==
    LET user_agent == user_agent_try_into(self.user_agent)
    IN IF ~user_agent.ok THEN Err(user_agent.err, NoClient)
       ELSE Ok(Client(self.credentials, user_agent.val))

build_async_unchecked(self) == Ok(Client(self.credentials, self.user_agent))

\* ClientBuilder::build_async.
build_async(self) ==
    LET user_agent == user_agent_try_into(self.user_agent)
    IN IF ~user_agent.ok THEN Err(user_agent.err, NoClient)
       ELSE Ok(Client(self.credentials, user_agent.val))

\* TryInto<Client> for ClientBuilder, src/client.rs.
try_into(self) ==
    LET user_agent == user_agent_try_into(self.user_agent)
    IN IF ~user_agent.ok THEN Err(user_agent.err, NoClient)
       ELSE Ok(Client(self.credentials, user_agent.val))

\* The user agents given to the builder: two valid ones, "a\n" and "\x7f".
UserAgents == {UserAgent1, UserAgent2, <<97, 10>>, <<127>>}

\* The credentials given to the builder.
BuilderCredentials ==
    {Credentials(k, p) : k \in {ApiKey1, ApiKey2},
                         p \in ValidPrivateKeys \cup InvalidPrivateKeys}

\* What is known of a builder: how far it got, the builder itself, the
\* inputs it was given, which build consumed it and what the build returned.
Building(stage, builder, given, kind, out) ==
    [stage |-> stage, builder |-> builder, given |-> given, kind |-> kind,
     out |-> out]

NotBuilt ==
    Building("none", ClientBuilder(<<>>, NoCredentials),
             ClientBuilder(<<>>, NoCredentials), "none", Err("none", NoClient))

----------------------------------------------------------------------------
(* The client at work: the wall clock moves, forward or back, and the      *)
(* client sends.                                                           *)

Init ==
    /\ clock \in ClockValues
    /\ client \in SendingClients
    /\ calls = <<>>
    /\ signed = <<>>
    /\ file = NoFile
    /\ readOut = NotRead
    /\ response = NoResponse
    /\ success = NotAsked
    /\ assetOut = NoAssetOp
    /\ built = NotBuilt
    /\ draft = NoDraft
    /\ tasks = NoTasks

\* The system clock is set by its owner: to any time, before or after now.
ClockSet ==
    /\ \E t \in ClockValues : t # clock /\ clock' = t
    /\ UNCHANGED <<client, calls, signed, file, readOut, response, success,
                   assetOut, built, draft, tasks>>

SendDroppingCredentials ==
    /\ \E api \in Apis, reply \in Replies :
         \E order \in Orderings(DOMAIN api.params) :
            LET out == send(client, api, clock, order, reply)
            IN calls' = Remember(calls,
                   [api |-> api, now |-> clock, requests |-> out.requests,
                    nonce |-> out.nonce, result |-> out.result])
    /\ client' = Client(NoCredentials, client.user_agent)
    /\ UNCHANGED <<clock, signed, file, readOut, response, success, assetOut,
                   built, draft, tasks>>

\* Client::send borrows the client immutably: the call is recorded and the
\* client is as before.
Send ==
    /\ \E api \in Apis, reply \in Replies :
         \E order \in Orderings(DOMAIN api.params) :
            LET out == send(client, api, clock, order, reply)
            IN calls' = Remember(calls,
                   [api |-> api, now |-> clock, requests |-> out.requests,
                    nonce |-> out.nonce, result |-> out.result])
    /\ UNCHANGED <<clock, client, signed, file, readOut, response, success,
                   assetOut, built, draft, tasks>>

Next == ClockSet \/ Send

Spec == Init /\ [][Next]_vars

----------------------------------------------------------------------------
(* The asynchronous and the blocking client at work: the wall clock moves, *)
(* and the client sends; the last call is kept, with the reply it got.     *)

InitHttp ==
    /\ clock \in ClockValues
    /\ client \in SendingClients
    /\ calls = <<>>
    /\ signed = <<>>
    /\ file = NoFile
    /\ readOut = NotRead
    /\ response = NoResponse
    /\ success = NotAsked
    /\ assetOut = NoAssetOp
    /\ built = NotBuilt
    /\ draft = NoDraft
    /\ tasks = NoTasks

HttpSend ==
    /\ \E api \in Apis, reply \in HttpReplies :
         \E order \in Orderings(DOMAIN api.params) :
            LET out == HttpClient_send(client, api, clock, order, reply)
            IN calls' = <<[api |-> api, now |-> clock, reply |-> reply,
                           requests |-> out.requests, nonce |-> out.nonce,
                           result |-> out.result]>>
    /\ UNCHANGED <<clock, client, signed, file, readOut, response, success,
                   assetOut, built, draft, tasks>>

NextHttp == ClockSet \/ HttpSend

SpecHttp == InitHttp /\ [][NextHttp]_vars

----------------------------------------------------------------------------
(* The signer alone: api_sign on any client, URI path, nonce and body.     *)

InitSign ==
    /\ clock = ClockBase
    /\ client = NoClient
    /\ calls = <<>>
    /\ signed = <<>>
    /\ file = NoFile
    /\ readOut = NotRead
    /\ response = NoResponse
    /\ success = NotAsked
    /\ assetOut = NoAssetOp
    /\ built = NotBuilt
    /\ draft = NoDraft
    /\ tasks = NoTasks

ApiSign ==
    /\ \E self \in SigningClients, path \in SignedPaths, n \in SignedNonces,
          body \in SignedBodies :
         signed' = Remember(signed,
             [self |-> self, uri_path |-> path, nonce |-> n, body |-> body,
              out |-> api_sign(self, path, n, body)])
    /\ UNCHANGED <<clock, client, calls, file, readOut, response, success,
                   assetOut, built, draft, tasks>>

NextSign == ApiSign

SpecSign == InitSign /\ [][NextSign]_vars

----------------------------------------------------------------------------
(* Credentials::read on any file. *)

InitRead ==
    /\ clock = ClockBase
    /\ client = NoClient
    /\ calls = <<>>
    /\ signed = <<>>
    /\ file \in Files
    /\ readOut = NotRead
    /\ response = NoResponse
    /\ success = NotAsked
    /\ assetOut = NoAssetOp
    /\ built = NotBuilt
    /\ draft = NoDraft
    /\ tasks = NoTasks

Read ==
    /\ ~readOut.called
    /\ readOut' = [called |-> TRUE, out |-> read(file)]
    /\ UNCHANGED <<clock, client, calls, signed, file, response, success,
                   assetOut, built, draft, tasks>>

NextRead == Read

SpecRead == InitRead /\ [][NextRead]_vars

----------------------------------------------------------------------------
(* Response::is_success on any envelope. *)

InitResponse ==
    /\ clock = ClockBase
    /\ client = NoClient
    /\ calls = <<>>
    /\ signed = <<>>
    /\ file = NoFile
    /\ readOut = NotRead
    /\ response \in {Response(e, s) : e \in ErrorLists, s \in StatusCodes}
    /\ success = NotAsked
    /\ assetOut = NoAssetOp
    /\ built = NotBuilt
    /\ draft = NoDraft
    /\ tasks = NoTasks

IsSuccess ==
    /\ ~success.called
    /\ success' = [called |-> TRUE, out |-> is_success(response)]
    /\ UNCHANGED <<clock, client, calls, signed, file, readOut, response,
                   assetOut, built, draft, tasks>>

NextResponse == IsSuccess

SpecResponse == InitResponse /\ [][NextResponse]_vars

----------------------------------------------------------------------------
(* Asset values: pairing two assets, classifying one, deserializing one.   *)

InitAsset ==
    /\ clock = ClockBase
    /\ client = NoClient
    /\ calls = <<>>
    /\ signed = <<>>
    /\ file = NoFile
    /\ readOut = NotRead
    /\ response = NoResponse
    /\ success = NotAsked
    /\ assetOut = NoAssetOp
    /\ built = NotBuilt
    /\ draft = NoDraft
    /\ tasks = NoTasks

Pair ==
    /\ assetOut.op = "none"
    /\ \E self \in Assets, other \in Assets :
         assetOut' = AssetOp("pair", self, other, <<>>, pair(self, other), self)
    /\ UNCHANGED <<clock, client, calls, signed, file, readOut, response,
                   success, built, draft, tasks>>

Classify ==
    /\ assetOut.op = "none"
    /\ \E self \in Assets :
         assetOut' = AssetOp("classify", self, self, <<>>, <<>>, self)
    /\ UNCHANGED <<clock, client, calls, signed, file, readOut, response,
                   success, built, draft, tasks>>

Deserialize ==
    /\ assetOut.op = "none"
    /\ \E name \in AssetNames :
         assetOut' = AssetOp("deserialize", "Unknown", "Unknown", name, <<>>,
                             deserialize(name))
    /\ UNCHANGED <<clock, client, calls, signed, file, readOut, response,
                   success, built, draft, tasks>>

FromStr ==
    /\ assetOut.op = "none"
    /\ \E name \in AssetNames :
         LET parsed == from_str(name)
         IN assetOut' = [AssetOp("from_str", "Unknown", "Unknown", name, <<>>,
                                 parsed.val) EXCEPT !.err = parsed.err]
    /\ UNCHANGED <<clock, client, calls, signed, file, readOut, response,
                   success, built, draft, tasks>>

NextAsset == Pair \/ Classify \/ Deserialize \/ FromStr

SpecAsset == InitAsset /\ [][NextAsset]_vars

----------------------------------------------------------------------------
(* Building a client: a builder is made from a user agent, may be given    *)
(* credentials, and is consumed by one of the three builds.                *)

InitBuild ==
    /\ clock = ClockBase
    /\ client = NoClient
    /\ calls = <<>>
    /\ signed = <<>>
    /\ file = NoFile
    /\ readOut = NotRead
    /\ response = NoResponse
    /\ success = NotAsked
    /\ assetOut = NoAssetOp
    /\ built = NotBuilt
    /\ draft = NoDraft
    /\ tasks = NoTasks

WithUserAgent ==
    /\ built.stage = "none"
    /\ \E user_agent \in UserAgents :
         built' = Building("builder", with_user_agent(user_agent),
                           ClientBuilder(user_agent, NoCredentials), "none",
                           built.out)
    /\ UNCHANGED <<clock, client, calls, signed, file, readOut, response,
                   success, assetOut, draft, tasks>>

WithCredentials ==
    /\ built.stage = "builder"
    /\ \E credentials \in BuilderCredentials :
         built' = Building("builder", with_credentials(built.builder, credentials),
                           ClientBuilder(built.given.user_agent, credentials),
                           "none", built.out)
    /\ UNCHANGED <<clock, client, calls, signed, file, readOut, response,
                   success, assetOut, draft, tasks>>

BuildBlocking ==
    /\ built.stage = "builder"
    /\ built' = Building("built", built.builder, built.given, "blocking",
                         build_blocking(built.builder))
    /\ UNCHANGED <<clock, client, calls, signed, file, readOut, response,
                   success, assetOut, draft, tasks>>

BuildAsync ==
    /\ built.stage = "builder"
    /\ built' = Building("built", built.builder, built.given, "async",
                         build_async(built.builder))
    /\ UNCHANGED <<clock, client, calls, signed, file, readOut, response,
                   success, assetOut, draft, tasks>>

TryInto ==
    /\ built.stage = "builder"
    /\ built' = Building("built", built.builder, built.given, "try_into",
                         try_into(built.builder))
    /\ UNCHANGED <<clock, client, calls, signed, file, readOut, response,
                   success, assetOut, draft, tasks>>

NextBuild == WithUserAgent \/ WithCredentials \/ BuildBlocking \/ BuildAsync \/ TryInto

SpecBuild == InitBuild /\ [][NextBuild]_vars

----------------------------------------------------------------------------
(* An ApiBuilder at work: parameters are added with with and with_mut, and *)
(* the URL and the body of a request are taken from it.                    *)

InitApi ==
    /\ clock = ClockBase
    /\ client = NoClient
    /\ calls = <<>>
    /\ signed = <<>>
    /\ file = NoFile
    /\ readOut = NotRead
    /\ response = NoResponse
    /\ success = NotAsked
    /\ assetOut = NoAssetOp
    /\ built = NotBuilt
    /\ draft \in {Draft(public(<<84, 105, 99, 107, 101, 114>>), <<>>, "new", NoText),
                  Draft(private(<<65, 100, 100, 79, 114, 100, 101, 114>>), <<>>,
                        "new", NoText)}
    /\ tasks = NoTasks

With ==
    /\ Len(draft.log) < MaxWiths
    /\ \E key \in ParamKeys, value \in ParamValues :
         draft' = Draft(with(draft.api, key, value),
                        Append(draft.log, <<key, value>>), "with", NoText)
    /\ UNCHANGED <<clock, client, calls, signed, file, readOut, response, success,
                   assetOut, built, tasks>>

WithMut ==
    /\ Len(draft.log) < MaxWiths
    /\ \E key \in ParamKeys, value \in ParamValues :
         draft' = Draft(with_mut(draft.api, key, value),
                        Append(draft.log, <<key, value>>), "with_mut", NoText)
    /\ UNCHANGED <<clock, client, calls, signed, file, readOut, response, success,
                   assetOut, built, tasks>>

Url ==
    /\ draft.shown.op = "none"
    /\ \E order \in Orderings(DOMAIN draft.api.params) :
         draft' = [draft EXCEPT !.shown =
                      [op |-> "url", text |-> url(draft.api, order), nonce |-> 0]]
    /\ UNCHANGED <<clock, client, calls, signed, file, readOut, response, success,
                   assetOut, built, tasks>>

Urlencode ==
    /\ draft.shown.op = "none"
    /\ \E order \in Orderings(DOMAIN draft.api.params) :
         draft' = [draft EXCEPT !.shown =
                      [op |-> "body",
                       text |-> urlencode(with_params(clock, draft.api.params), order),
                       nonce |-> clock]]
    /\ UNCHANGED <<clock, client, calls, signed, file, readOut, response, success,
                   assetOut, built, tasks>>

NextApi == With \/ WithMut \/ Url \/ Urlencode

SpecApi == InitApi /\ [][NextApi]_vars

----------------------------------------------------------------------------
(* Two tasks send private APIs on clones of one client with credentials,   *)
(* while the wall clock moves.                                             *)

InitTasks ==
    /\ clock \in ClockValues
    /\ client \in {c \in SendingClients : c.credentials.present}
    /\ calls = <<>>
    /\ signed = <<>>
    /\ file = NoFile
    /\ readOut = NotRead
    /\ response = NoResponse
    /\ success = NotAsked
    /\ assetOut = NoAssetOp
    /\ built = NotBuilt
    /\ draft = NoDraft
    /\ tasks = NoTasks

\* A task calls send: the nonce is drawn, the request is signed and issued,
\* and the task waits for the response; or the send fails before that.
TaskStart ==
    /\ \E t \in TaskIds, api \in {a \in Apis : is_private(a)} :
         \E order \in Orderings(DOMAIN api.params) :
            LET out == send(client, api, clock, order, NoReply)
                turn == 1 + Cardinality({u \in TaskIds : tasks[u].turn > 0})
            IN /\ tasks[t].pc = "idle"
               /\ tasks' = [tasks EXCEPT ![t] =
                     [pc |-> IF out.requests = <<>> THEN "done" ELSE "awaiting",
                      turn |-> turn, requests |-> out.requests,
                      nonce |-> out.nonce,
                      result |-> IF out.requests = <<>> THEN out.result
                                 ELSE IdleTask.result]]
    /\ UNCHANGED <<clock, client, calls, signed, file, readOut, response, success,
                   assetOut, built, draft>>

\* The response arrives, or the request fails, and the send returns.
TaskFinish ==
    /\ \E t \in TaskIds, reply \in Replies :
         /\ tasks[t].pc = "awaiting"
         /\ tasks' = [tasks EXCEPT ![t].pc = "done", ![t].result = send_json(reply)]
    /\ UNCHANGED <<clock, client, calls, signed, file, readOut, response, success,
                   assetOut, built, draft>>

NextTasks == ClockSet \/ TaskStart \/ TaskFinish

SpecTasks == InitTasks /\ [][NextTasks]_vars

----------------------------------------------------------------------------
(* Properties of Response::is_success (SpecResponse). *)

\* C1: is_success returns true exactly when the error list is empty and the
\* status code lies in 200..299, and false for every other envelope.
C1_IsSuccessIffNoErrorAnd2xx ==
    success.called =>
        (success.out <=> (Len(response.error) = 0 /\ response.status_code \in 200..299))

C1_Witness ==
    /\ success.called
    /\ success.out
    /\ response.status_code = 299

----------------------------------------------------------------------------
(* Properties of Client::send (Spec). *)

Issued(call) == Len(call.requests) > 0

\* C2: a private send on a client without credentials fails with
\* Unauthorized and issues no HTTP request (stated for the sends made while
\* the wall clock can be read, so that no clock failure stands in the way).
C2_PrivateSendWithoutCredentialsIsUnauthorized ==
    \A i \in DOMAIN calls :
        (/\ is_private(calls[i].api)
         /\ ~client.credentials.present
         /\ calls[i].now >= 0) =>
            /\ ~calls[i].result.ok
            /\ calls[i].result.err = "Unauthorized"
            /\ ~Issued(calls[i])

\* C4: of two private requests issued with the same API key, the later one
\* carries the strictly greater nonce.
C4_NoncesStrictlyIncrease ==
    \A i, j \in DOMAIN calls :
        (/\ i < j
         /\ is_private(calls[i].api) /\ Issued(calls[i])
         /\ is_private(calls[j].api) /\ Issued(calls[j])
         /\ client.credentials.present) =>
            calls[i].nonce.n < calls[j].nonce.n

\* C7: a private request of a client with credentials carries the API-Key
\* header with the configured key and the API-Sign header with the signer's
\* signature of the request; a public request carries neither header.
C7_PrivateRequestsCarryKeyAndSignature ==
    \A i \in DOMAIN calls : \A k \in DOMAIN calls[i].requests :
        LET call == calls[i]
            req == call.requests[k]
        IN /\ (is_private(call.api) /\ client.credentials.present) =>
                 /\ "API-Key" \in DOMAIN req.headers
                 /\ req.headers["API-Key"] = client.credentials.api_key
                 /\ "API-Sign" \in DOMAIN req.headers
                 /\ call.nonce.some
                 /\ req.headers["API-Sign"] =
                        api_sign(client, uri_path(call.api), call.nonce.n, req.body).val
           /\ is_public(call.api) =>
                 /\ "API-Key" \notin DOMAIN req.headers
                 /\ "API-Sign" \notin DOMAIN req.headers

C7_Witness ==
    \E i \in DOMAIN calls :
        /\ is_private(calls[i].api)
        /\ client.credentials.present
        /\ Issued(calls[i])
        /\ DOMAIN calls[i].api.params # {}

\* C8: when the private key is not Base64, or the MAC rejects its length, the
\* private send whose signing met it returns InvalidKey and issues no request.
C8_InvalidPrivateKeyFailsTheSend ==
    \A i \in DOMAIN calls :
        LET decoded == base64_decode(client.credentials.private_key)
        IN (/\ is_private(calls[i].api)
            /\ client.credentials.present
            /\ calls[i].nonce.some
            /\ (~decoded.ok \/ ~new_varkey(decoded.val).ok)) =>
               /\ ~calls[i].result.ok
               /\ calls[i].result.err = "InvalidKey"
               /\ ~Issued(calls[i])

C8_Witness ==
    \E i \in DOMAIN calls :
        /\ is_private(calls[i].api)
        /\ client.credentials.present
        /\ ~base64_decode(client.credentials.private_key).ok
        /\ calls[i].nonce.some
        /\ calls[i].result.err = "InvalidKey"

----------------------------------------------------------------------------
(* Properties of Client::api_sign (SpecSign). *)

\* C3: api_sign on a client without credentials returns Unauthorized, for
\* every URI path, nonce and body, and yields no signature.
C3_SignWithoutCredentialsIsUnauthorized ==
    \A i \in DOMAIN signed :
        ~signed[i].self.credentials.present =>
            /\ ~signed[i].out.ok
            /\ signed[i].out.err = "Unauthorized"
            /\ signed[i].out.val = NoSignature

C3_Witness ==
    /\ Len(signed) = 2
    /\ ~signed[1].self.credentials.present
    /\ ~signed[2].self.credentials.present
    /\ signed[1].body # signed[2].body
    /\ signed[1].uri_path # signed[2].uri_path
    /\ signed[1].nonce # signed[2].nonce

\* C5: two signing runs with the same nonce, body, URI path and private key
\* return the same signature, whatever else the two clients hold.
C5_SignerIsDeterministic ==
    \A i, j \in DOMAIN signed :
        (/\ signed[i].self.credentials.present
         /\ signed[j].self.credentials.present
         /\ signed[i].self.credentials.private_key
                = signed[j].self.credentials.private_key
         /\ signed[i].uri_path = signed[j].uri_path
         /\ signed[i].nonce = signed[j].nonce
         /\ signed[i].body = signed[j].body) =>
            signed[i].out = signed[j].out

C5_Witness ==
    /\ Len(signed) = 2
    /\ signed[1].out.ok
    /\ signed[1].self.credentials.private_key = signed[2].self.credentials.private_key
    /\ signed[1].self.credentials.api_key # signed[2].self.credentials.api_key
    /\ signed[1].uri_path = signed[2].uri_path
    /\ signed[1].nonce = signed[2].nonce
    /\ signed[1].body = signed[2].body

\* C6: the signature is Base64(MAC512(key, path ++ Digest256(decimal nonce ++
\* body))), the key being the Base64-decoded private key.
C6_SignatureFormula ==
    \A i \in DOMAIN signed :
        LET run == signed[i]
            decoded == base64_decode(run.self.credentials.private_key)
        IN (run.self.credentials.present /\ decoded.ok) =>
            /\ run.out.ok
            /\ run.out.val =
                 [t |-> "base64",
                  of |-> [t |-> "hmac-sha512",
                          key |-> decoded.val,
                          msg |-> <<[t |-> "bytes", v |-> run.uri_path],
                                    [t |-> "sha256",
                                     v |-> Decimal(run.nonce) \o run.body]>>]]

C6_Witness ==
    \E i \in DOMAIN signed :
        /\ signed[i].out.ok
        /\ signed[i].nonce >= 10
        /\ Len(signed[i].out.val.of.key) > 0

----------------------------------------------------------------------------
(* Properties of Credentials::read (SpecRead). *)

\* C9, as claimed: read on a file with exactly two lines succeeds, with the
\* first line as API key and the second as private key.
C9_TwoLinesAlwaysParse ==
    (readOut.called /\ file.readable /\ Len(lines(file.content)) = 2) =>
        /\ readOut.out.ok
        /\ readOut.out.val.api_key = lines(file.content)[1]
        /\ readOut.out.val.private_key = lines(file.content)[2]

\* C9, amended: read on a file with exactly two lines, each a valid header
\* value, succeeds, with the first line as API key and the second as private
\* key, byte for byte.
C9_TwoValidLinesParse ==
    (/\ readOut.called
     /\ file.readable
     /\ Len(lines(file.content)) = 2
     /\ \A k \in 1..2 : \A b \in DOMAIN lines(file.content)[k] :
            LET byte == lines(file.content)[k][b]
            IN byte = 9 \/ (byte >= 32 /\ byte # 127)) =>
        /\ readOut.out.ok
        /\ readOut.out.val.present
        /\ readOut.out.val.api_key = lines(file.content)[1]
        /\ readOut.out.val.private_key = lines(file.content)[2]

C9_Witness ==
    /\ readOut.called
    /\ readOut.out.ok
    /\ Len(lines(file.content)) = 2
    /\ readOut.out.val.api_key # readOut.out.val.private_key
    /\ Len(readOut.out.val.api_key) > 0
    /\ Len(readOut.out.val.private_key) > 0

\* A line that HeaderValue::from_str refuses.
BadLine(l) == \E b \in DOMAIN l : l[b] # 9 /\ (l[b] < 32 \/ l[b] = 127)

\* C10: read fails with InvalidKey, and returns no credentials, on a file
\* that cannot be read, an empty file, a file with one line only, and a file
\* whose API key line (the first) or private key line (the second) is no
\* valid header value.
C10_MalformedFilesFail ==
    LET ls == lines(file.content)
        malformed ==
            \/ ~file.readable
            \/ Len(ls) < 2
            \/ BadLine(ls[1])
            \/ BadLine(ls[2])
    IN (readOut.called /\ malformed) =>
        /\ ~readOut.out.ok
        /\ readOut.out.err = "InvalidKey"
        /\ readOut.out.val = NoCredentials

\* C11: on a file of two or more lines (stated for files whose lines are all
\* valid header values), read takes the API key from the first line and the
\* private key from the second, whatever follows them.
C11_KeysAreTheFirstTwoLines ==
    LET ls == lines(file.content)
    IN (/\ readOut.called
        /\ file.readable
        /\ Len(ls) >= 2
        /\ \A k \in DOMAIN ls : ~BadLine(ls[k])) =>
           /\ readOut.out.ok
           /\ readOut.out.val.api_key = ls[1]
           /\ readOut.out.val.private_key = ls[2]

----------------------------------------------------------------------------
(* Properties of Asset (SpecAsset). *)

\* The variants whose name carries the exchange's prefix letter before the
\* currency code: X before a crypto code, Z before a fiat code.
PrefixedVariants ==
    {"XETC", "XETH", "XLTC", "XMLN", "XREP", "XXBT", "XXDG", "XXLM", "XXMR",
     "XXRP", "XZEC", "ZAUD", "ZCAD", "ZEUR", "ZGBP", "ZJPY", "ZUSD"}

\* The bare currency code of an asset: XBT for XXBT, EUR for ZEUR, ADA for ADA.
BareCode(a) ==
    IF a \in PrefixedVariants THEN Tail(Asset_to_string(a)) ELSE Asset_to_string(a)

\* The prefixed code of an asset: X and the bare code for a crypto asset, Z and
\* the bare code for a fiat asset.
PrefixedCode(a) == (IF is_fiat(a) THEN <<90>> ELSE <<88>>) \o BareCode(a)

\* C13: the pair of a crypto asset and a fiat asset, in either order, is the
\* X-prefixed crypto code and the Z-prefixed fiat code.
C13_CryptoFiatPairIsPrefixed ==
    (/\ assetOut.op = "pair"
     /\ \/ is_crypto(assetOut.self) /\ is_fiat(assetOut.other)
        \/ is_fiat(assetOut.self) /\ is_crypto(assetOut.other)) =>
        assetOut.text = PrefixedCode(assetOut.self) \o PrefixedCode(assetOut.other)

\* C14: the pair of two crypto assets, or of two fiat assets, is the
\* concatenation of their bare currency codes, with no X or Z prefix.
C14_SameClassPairIsBare ==
    (/\ assetOut.op = "pair"
     /\ \/ is_crypto(assetOut.self) /\ is_crypto(assetOut.other)
        \/ is_fiat(assetOut.self) /\ is_fiat(assetOut.other)) =>
        assetOut.text = BareCode(assetOut.self) \o BareCode(assetOut.other)

\* C15: for every asset exactly one of is_crypto, is_fiat, is_kraken_credit
\* and is_unknown is true.
C15_ExactlyOneClass ==
    assetOut.op = "classify" =>
        LET c == assetOut.classes
        IN Cardinality({k \in DOMAIN c : c[k]}) = 1

\* Every asset has been classified at some point: here the Kraken fee credit.
C15_Witness ==
    /\ assetOut.op = "classify"
    /\ assetOut.self = "KFEE"
    /\ assetOut.classes.is_kraken_credit

\* C20: deserializing a name that is the name of no known asset yields
\* Unknown, and deserializing the name of a known asset yields that asset, so
\* Unknown comes out for no known name.
C20_DeserializeKnownOrUnknown ==
    assetOut.op = "deserialize" =>
        /\ (\A a \in KnownAssets : DebugName[a] # assetOut.name) =>
               assetOut.variant = "Unknown"
        /\ \A a \in KnownAssets :
               DebugName[a] = assetOut.name => assetOut.variant = a
        /\ assetOut.variant = "Unknown" =>
               \A a \in KnownAssets : DebugName[a] # assetOut.name

\* A name that differs from a known one by case alone comes out as Unknown.
C20_Witness ==
    /\ assetOut.op = "deserialize"
    /\ assetOut.name = <<120, 120, 98, 116>>
    /\ assetOut.variant = "Unknown"

----------------------------------------------------------------------------
(* Properties of ClientBuilder (SpecBuild). *)

\* C18: a build that succeeds returns a client with the user agent the
\* builder was given and with the credentials it was given: none if
\* with_credentials was never called, the supplied ones otherwise; for the
\* blocking build, the asynchronous build and try_into alike.
C18_BuildPreservesInputs ==
    (built.stage = "built" /\ built.out.ok) =>
        /\ built.out.val.user_agent = built.given.user_agent
        /\ built.out.val.credentials = built.given.credentials

\* A blocking client was built from a builder that was given credentials.
C18_Witness ==
    /\ built.stage = "built"
    /\ built.kind = "blocking"
    /\ built.out.ok
    /\ built.given.credentials.present
    /\ built.out.val.credentials.present

\* C19: a build from a user agent that is not a valid header value fails with
\* InvalidUserAgent and returns no client, whichever build it is.
C19_InvalidUserAgentFailsTheBuild ==
    (built.stage = "built" /\ ~HeaderValue_from_str(built.given.user_agent)) =>
        /\ ~built.out.ok
        /\ built.out.err = "InvalidUserAgent"
        /\ built.out.val = NoClient

\* The asynchronous build was given a user agent with a line feed in it.
C19_Witness ==
    /\ built.stage = "built"
    /\ built.kind = "async"
    /\ built.given.user_agent = <<97, 10>>
    /\ built.out.err = "InvalidUserAgent"

----------------------------------------------------------------------------
(* Properties of the body of a private request (Spec). *)

\* The fields of a URL-encoded body: the text between the "&" separators.
RECURSIVE Fields(_, _)
Fields(s, cur) ==
    IF s = <<>> THEN <<cur>>
    ELSE IF Head(s) = 38
         THEN <<cur>> \o Fields(Tail(s), <<>>)
         ELSE Fields(Tail(s), Append(cur, Head(s)))

\* A field whose key is nonce: it starts with "nonce=".
IsNonceField(f) ==
    /\ Len(f) >= 6
    /\ SubSeq(f, 1, 6) = <<110, 111, 110, 99, 101, 61>>

\* C17: the body of every private request has exactly one nonce field, and
\* the field holds the decimal nonce of the call, whatever the parameters
\* (stated for the requests of a client with credentials, the signed ones).
C17_BodyHasExactlyOneNonce ==
    \A i \in DOMAIN calls : \A k \in DOMAIN calls[i].requests :
        LET call == calls[i]
            fs == Fields(call.requests[k].body, <<>>)
            found == {j \in DOMAIN fs : IsNonceField(fs[j])}
        IN (is_private(call.api) /\ client.credentials.present) =>
              /\ Cardinality(found) = 1
              /\ call.nonce.some
              /\ \A j \in found :
                     fs[j] = <<110, 111, 110, 99, 101, 61>> \o Decimal(call.nonce.n)

----------------------------------------------------------------------------
(* Properties of the asynchronous and blocking Client::send (SpecHttp). *)

\* C16: a send issues at most one request; a failure to read the clock or to
\* sign ends it with that error and no request; a request that gets no
\* response, or a response that is not the envelope, ends it with a request
\* error; and a send succeeds only when its one request got the envelope.
C16_OneRequestAndEveryErrorReturned ==
    \A i \in DOMAIN calls :
        LET call == calls[i]
            signing == api_sign(client, uri_path(call.api), call.now,
                                IF Issued(call) THEN call.requests[1].body ELSE <<>>)
        IN /\ Len(call.requests) <= 1
           /\ (is_private(call.api) /\ call.now < 0) =>
                 /\ ~Issued(call)
                 /\ ~call.result.ok /\ call.result.err = "Internal"
           /\ (is_private(call.api) /\ call.now >= 0 /\ ~signing.ok) =>
                 /\ ~Issued(call)
                 /\ ~call.result.ok /\ call.result.err = signing.err
           /\ (Issued(call) /\ ~(call.reply.arrived /\ call.reply.json)) =>
                 ~call.result.ok /\ call.result.err = "Request"
           /\ call.result.ok =>
                 Issued(call) /\ call.reply.arrived /\ call.reply.json

\* A request went out and no response came back: the send failed, once.
C16_Witness ==
    \E i \in DOMAIN calls :
        /\ Issued(calls[i])
        /\ ~calls[i].reply.arrived
        /\ calls[i].result.err = "Request"

\* The text k=v of every parameter of an API.
ParamFields(api) ==
    {k \o <<61>> \o api.params[k] : k \in DOMAIN api.params}

\* The query string of a URL: what follows the first "?", if anything.
RECURSIVE Query(_)
Query(u) ==
    IF u = <<>> THEN [some |-> FALSE, q |-> <<>>]
    ELSE IF Head(u) = 63 THEN [some |-> TRUE, q |-> Tail(u)]
         ELSE Query(Tail(u))

\* C12: a public API goes out as one GET without a body whose URL has the
\* parameters as its query string; a private API goes out, if at all, as a
\* POST whose URL has no query and whose body has the parameters; and with
\* leaves the kind the constructor gave.
C12_DispatchByKind ==
    /\ \A i \in DOMAIN calls :
         LET call == calls[i]
         IN /\ is_public(call.api) => Len(call.requests) = 1
            /\ \A k \in DOMAIN call.requests :
                 LET req == call.requests[k]
                     query == Query(req.url)
                     fields(t) == {Fields(t, <<>>)[j] : j \in DOMAIN Fields(t, <<>>)}
                 IN /\ is_public(call.api) =>
                         /\ req.method = "GET"
                         /\ req.body = <<>>
                         /\ query.some <=> ParamFields(call.api) # {}
                         /\ query.some => fields(query.q) = ParamFields(call.api)
                    /\ is_private(call.api) =>
                         /\ req.method = "POST"
                         /\ ~query.some
                         /\ ParamFields(call.api) \subseteq fields(req.body)
    /\ \A api \in Apis :
         /\ public(api.method).kind = "Public"
         /\ private(api.method).kind = "Private"
         /\ with(api, <<107>>, <<118>>).kind = api.kind

\* A private API with parameters went out, from a client with credentials.
C12_Witness ==
    \E i \in DOMAIN calls :
        /\ is_private(calls[i].api)
        /\ DOMAIN calls[i].api.params # {}
        /\ Issued(calls[i])
        /\ client.credentials.present

----------------------------------------------------------------------------
(* Properties of FromStr for Asset (SpecAsset). *)

\* C21: parsing an asset from a string ignores the case of its letters: it
\* returns the variant whose code is the string in upper case, fails for a
\* string that is no code in any case, and never returns Unknown.
C21_FromStrIgnoresCaseAndNeverUnknown ==
    assetOut.op = "from_str" =>
        LET upper == [i \in DOMAIN assetOut.name |->
                         IF assetOut.name[i] \in 97..122
                         THEN assetOut.name[i] - 32 ELSE assetOut.name[i]]
            known == {a \in KnownAssets : Asset_to_string(a) = upper}
        IN /\ \A a \in known : assetOut.err = "none" /\ assetOut.variant = a
           /\ known = {} => assetOut.err # "none"
           /\ assetOut.err = "none" => assetOut.variant # "Unknown"

\* "xxbt" was parsed and came out as XXBT.
C21_Witness ==
    /\ assetOut.op = "from_str"
    /\ assetOut.name = <<120, 120, 98, 116>>
    /\ assetOut.err = "none"
    /\ assetOut.variant = "XXBT"

----------------------------------------------------------------------------
(* Properties of what a private request signs (Spec). *)

\* C22: the signature of a private request sent with credentials is computed
\* over what is sent: the nonce that the body ends with, the body itself, and
\* the path of the URL, which is the domain followed by
\* /<version>/private/<method>.
C22_SignatureCoversWhatIsSent ==
    \A i \in DOMAIN calls : \A k \in DOMAIN calls[i].requests :
        LET call == calls[i]
            req == call.requests[k]
            fs == Fields(req.body, <<>>)
            last == fs[Len(fs)]
            digits == SubSeq(last, 7, Len(last))
            path == SubSeq(req.url, Len(KRAKEN_DOMAIN) + 1, Len(req.url))
        IN (is_private(call.api) /\ client.credentials.present) =>
              /\ IsNonceField(last)
              /\ call.nonce.some /\ digits = Decimal(call.nonce.n)
              /\ SubSeq(req.url, 1, Len(KRAKEN_DOMAIN)) = KRAKEN_DOMAIN
              /\ path = <<47>> \o call.api.version
                        \o <<47, 112, 114, 105, 118, 97, 116, 101, 47>>
                        \o call.api.method
              /\ "API-Sign" \in DOMAIN req.headers
              /\ req.headers["API-Sign"] =
                   [t |-> "base64",
                    of |-> [t |-> "hmac-sha512",
                            key |-> base64_decode(client.credentials.private_key).val,
                            msg |-> <<[t |-> "bytes", v |-> path],
                                      [t |-> "sha256", v |-> digits \o req.body]>>]]

\* A signed request with parameters went out at a nonce of two digits.
C22_Witness ==
    \E i \in DOMAIN calls :
        /\ is_private(calls[i].api)
        /\ client.credentials.present
        /\ Issued(calls[i])
        /\ calls[i].now >= 10
        /\ Cardinality(DOMAIN calls[i].api.params) = 2

----------------------------------------------------------------------------
(* Properties of the envelope a send returns (SpecHttp). *)

\* C23: the envelope of a successful send has the status of the response it
\* was decoded from, so is_success is true of it exactly when it has no
\* errors and that status is 2xx, and false for a status outside 2xx.
C23_EnvelopeHasTransportStatus ==
    \A i \in DOMAIN calls :
        LET call == calls[i]
            envelope == call.result.val
        IN call.result.ok =>
              /\ envelope.status_code = call.reply.status
              /\ envelope.error = call.reply.error
              /\ is_success(envelope) <=>
                    (call.reply.error = <<>> /\ call.reply.status \in 200..299)

\* An envelope without errors came back under status 520: not a success.
C23_Witness ==
    \E i \in DOMAIN calls :
        /\ calls[i].result.ok
        /\ calls[i].result.val.error = <<>>
        /\ calls[i].reply.status = 520
        /\ ~is_success(calls[i].result.val)

----------------------------------------------------------------------------
(* Properties of ApiBuilder (SpecApi). *)

\* The parameters a sequence of writes leaves behind when the last write to
\* a key wins.
LastWrites(log) ==
    [k \in {log[i][1] : i \in DOMAIN log} |->
        LET last == CHOOSE i \in DOMAIN log :
                        /\ log[i][1] = k
                        /\ \A j \in DOMAIN log : log[j][1] = k => j <= i
        IN log[last][2]]

\* C25: the parameters of a builder are those of its with and with_mut calls
\* with the last write to each key winning, every call being accepted and
\* nothing but the parameters being touched; with and with_mut give the same
\* builder; and two writes to distinct keys give the same builder in either
\* order.
C25_ParamsAreLastWriteWins ==
    /\ draft.last # "none" =>
          /\ draft.api.params = LastWrites(draft.log)
          /\ [draft.api EXCEPT !.params = EmptyMap]
                = with_method(draft.api.kind, draft.api.method)
    /\ \A k1 \in ParamKeys, v1 \in ParamValues :
          /\ with(draft.api, k1, v1) = with_mut(draft.api, k1, v1)
          /\ \A k2 \in ParamKeys \ {k1}, v2 \in ParamValues :
                /\ with(with(draft.api, k1, v1), k2, v2)
                      = with(with(draft.api, k2, v2), k1, v1)
                /\ with_mut(with_mut(draft.api, k1, v1), k2, v2)
                      = with_mut(with_mut(draft.api, k2, v2), k1, v1)

\* with_mut wrote a key a second time, with another value.
C25_Witness ==
    /\ draft.last = "with_mut"
    /\ Len(draft.log) = 2
    /\ draft.log[1][1] = draft.log[2][1]
    /\ draft.log[1][2] # draft.log[2][2]
    /\ draft.api.params[draft.log[2][1]] = draft.log[2][2]

\* How often a byte occurs in a text.
RECURSIVE Count(_, _)
Count(s, b) ==
    IF s = <<>> THEN 0
    ELSE (IF Head(s) = b THEN 1 ELSE 0) + Count(Tail(s), b)

\* C24: the URL of a public API is the domain and the URI path, followed,
\* when there are parameters, by a single "?" and the parameters, each once
\* as key=value, with "&" between them and none at the end; the URL of a
\* private API is the domain and the URI path alone.
C24_UrlHoldsEachParameterOnce ==
    draft.shown.op = "url" =>
        LET text == draft.shown.text
            base == draft.api.domain \o uri_path(draft.api)
            query == Query(text)
            fs == Fields(query.q, <<>>)
        IN /\ SubSeq(text, 1, Len(base)) = base
           /\ (is_private(draft.api) \/ DOMAIN draft.api.params = {}) => text = base
           /\ (is_public(draft.api) /\ DOMAIN draft.api.params # {}) =>
                 /\ query.some
                 /\ Count(text, 63) = 1
                 /\ text[Len(text)] # 38
                 /\ Len(fs) = Cardinality(DOMAIN draft.api.params)
                 /\ {fs[j] : j \in DOMAIN fs} = ParamFields(draft.api)

----------------------------------------------------------------------------
(* Properties of Body::urlencode (SpecApi). *)

\* The value of a hexadecimal digit, and 16 for any other byte.
HexValue(b) ==
    IF b \in 48..57 THEN b - 48
    ELSE IF b \in 65..70 THEN b - 55
    ELSE IF b \in 97..102 THEN b - 87
    ELSE 16

\* Percent-decoding: "%XY" with hexadecimal X and Y is the byte 16X + Y.
RECURSIVE PercentDecode(_)
PercentDecode(s) ==
    IF s = <<>> THEN <<>>
    ELSE IF /\ Head(s) = 37 /\ Len(s) >= 3
            /\ HexValue(s[2]) < 16 /\ HexValue(s[3]) < 16
         THEN <<16 * HexValue(s[2]) + HexValue(s[3])>>
              \o PercentDecode(SubSeq(s, 4, Len(s)))
         ELSE <<Head(s)>> \o PercentDecode(Tail(s))

\* A field split at its first "=" (a field without one is a key with an
\* empty value), both sides percent-decoded.
DecodeField(f) ==
    LET at == IF Count(f, 61) = 0 THEN Len(f) + 1
              ELSE CHOOSE i \in DOMAIN f :
                       f[i] = 61 /\ \A j \in 1..(i - 1) : f[j] # 61
    IN <<PercentDecode(SubSeq(f, 1, at - 1)),
         PercentDecode(SubSeq(f, at + 1, Len(f)))>>

\* C26: the body decodes to what it was made from: split on "&" and "=" and
\* percent-decoded, it is the parameters and the nonce, each once.
C26_BodyDecodesToParamsAndNonce ==
    draft.shown.op = "body" =>
        LET fs == Fields(draft.shown.text, <<>>)
            ps == draft.api.params
        IN /\ Len(fs) = Cardinality(DOMAIN ps) + 1
           /\ {DecodeField(fs[j]) : j \in DOMAIN fs}
                 = {<<k, ps[k]>> : k \in DOMAIN ps}
                   \cup {<<(<<110, 111, 110, 99, 101>>), Decimal(draft.shown.nonce)>>}

----------------------------------------------------------------------------
(* The client across its sends (Spec). *)

\* C27: no step of the client at work, a send of any kind and outcome
\* included, changes the client's credentials or its user agent.
C27_SendsLeaveTheClientAlone ==
    [][/\ client'.credentials = client.credentials
       /\ client'.user_agent = client.user_agent]_vars

\* A client with credentials has sent twice, a private API and a public one,
\* one send failing and the other succeeding.
C27_Witness ==
    /\ client.credentials.present
    /\ Len(calls) = 2
    /\ is_private(calls[1].api) /\ ~calls[1].result.ok
    /\ is_public(calls[2].api) /\ calls[2].result.ok

----------------------------------------------------------------------------
(* Properties of concurrent sends (SpecTasks). *)

\* C28: two private sends in flight at the same time on clones of a client
\* carry different nonces, and of two nonces the one drawn later is never
\* the smaller.
C28_ConcurrentNoncesDifferAndNeverRegress ==
    \A t, u \in TaskIds :
        (t # u /\ tasks[t].nonce.some /\ tasks[u].nonce.some) =>
            /\ (tasks[t].pc = "awaiting" /\ tasks[u].pc = "awaiting") =>
                  tasks[t].nonce.n # tasks[u].nonce.n
            /\ tasks[t].turn < tasks[u].turn =>
                  tasks[t].nonce.n <= tasks[u].nonce.n

====
